---- MODULE Spec2Model ----
(***************************************************************************)
(* Model of the chat orchestration of lukekabbash/integrator: the useChat  *)
(* hook (sessions, active session, streaming requests) and the OpenAI      *)
(* streaming adapter with its render throttling.                           *)
(*                                                                         *)
(* Texts are sequences of characters (one-character strings); the two     *)
(* long literals that are never sliced (the error text, the default system *)
(* prompt) are one-element sequences holding the literal.  Sequences are   *)
(* 1-based: a JavaScript index i is i + 1 here, and findIndex's -1 is 0.   *)
(*                                                                         *)
(* An identifier produced by uuidv4() is an identifier that occurs nowhere *)
(* in the state (no session, message, request or pending call holds it):   *)
(* the smallest such number is taken, so that two states that differ only  *)
(* in the names of their identifiers are one state.                        *)
(*                                                                         *)
(* A Date is its time in clock ticks; now is the clock that new Date()     *)
(* reads.  Everything localStorage holds when the hook starts was written  *)
(* before the clock's first value.                                         *)
(***************************************************************************)
EXTENDS Integers, Sequences, FiniteSets, TLC

VARIABLES sessions, activeSessionId, isLoading, selectedProvider,
          requests, lastCall, thr, now

chatVars == <<sessions, activeSessionId, isLoading, selectedProvider,
              requests, lastCall, now>>
vars == <<sessions, activeSessionId, isLoading, selectedProvider,
          requests, lastCall, thr, now>>

(***************************************************************************)
(* Bounds of the model.                                                    *)
(***************************************************************************)
MaxSessions == 3
MaxMsgs == 4
MaxId == 9
MaxRequests == 3
MaxDeltas == 2
MaxNow == 3
\* how often the clock advances
MaxTicks == 2
\* the clock's value when the hook starts, and the time of what was stored
\* (time 0 is the epoch)
StartTime == 2
StoredTime == 1

\* an id that uuidv4() never hands out (a caller's id of no session/message)
NoSuchId == MaxId + 1

(***************************************************************************)
(* Texts.                                                                  *)
(***************************************************************************)
EmptyText == <<>>

IsWhitespace(c) == c = " "

RECURSIVE TrimStart(_)
TrimStart(s) ==
  IF s = <<>> THEN <<>>
  ELSE IF IsWhitespace(Head(s)) THEN TrimStart(Tail(s)) ELSE s

RECURSIVE TrimEnd(_)
TrimEnd(s) ==
  IF s = <<>> THEN <<>>
  ELSE IF IsWhitespace(s[Len(s)]) THEN TrimEnd(SubSeq(s, 1, Len(s) - 1)) ELSE s

\* String.prototype.trim
Trim(s) == TrimEnd(TrimStart(s))

\* String.prototype.slice(0, n)
SliceTo(s, n) == SubSeq(s, 1, IF Len(s) < n THEN Len(s) ELSE n)

\* Array.prototype.join('') of a list of texts
RECURSIVE Join(_)
Join(chunks) ==
  IF chunks = <<>> THEN <<>> ELSE Head(chunks) \o Join(Tail(chunks))

\* the texts a user types into the input (blank ones included)
InputTexts == { <<>>, <<" ">>, <<"a", " ">> }
\* the texts a user gives to an inline edit
EditTexts == { <<"c">> }
\* the text fragments a provider streams: 'He', 'llo', 'He', ...
Deltas == { <<"H", "e">>, <<"l", "l", "o">> }
ProviderDelta(i) == IF i % 2 = 1 THEN <<"H", "e">> ELSE <<"l", "l", "o">>

NEW_CHAT == <<"N", "e", "w", " ", "C", "h", "a", "t">>
BRANCHED_FROM ==
  <<"B", "r", "a", "n", "c", "h", "e", "d", " ", "f", "r", "o", "m", " ">>
ELLIPSIS == <<".", ".", ".">>
ERROR_TEXT == <<"Sorry, there was an error generating a response. Please try again.">>
DEFAULT_SYSTEM_PROMPT == <<"You are a helpful, accurate, and friendly AI assistant.">>

TitleSlice == 30
BranchTitleSlice == 20

(***************************************************************************)
(* The model catalog (types/chat.ts), one model per provider family.       *)
(***************************************************************************)
ALL_MODELS == <<
  [id |-> "gemini-2.0-flash", provider |-> "google"],
  [id |-> "gemini-1.5-flash-8b", provider |-> "google"],
  [id |-> "gpt-4o", provider |-> "openai"],
  [id |-> "grok-2-latest", provider |-> "xai"] >>

Undefined == "undefined"

getModelDetails(modelId) ==
  IF \E i \in 1..Len(ALL_MODELS) : ALL_MODELS[i].id = modelId
  THEN ALL_MODELS[CHOOSE i \in 1..Len(ALL_MODELS) :
                    /\ ALL_MODELS[i].id = modelId
                    /\ \A j \in 1..(i - 1) : ALL_MODELS[j].id # modelId]
  ELSE [id |-> Undefined, provider |-> Undefined]

getProviderFromModelId(modelId) ==
  IF getModelDetails(modelId).provider = Undefined
  THEN "google"
  ELSE getModelDetails(modelId).provider

defaultModel == ALL_MODELS[1].id
defaultProvider == getProviderFromModelId(defaultModel)

(***************************************************************************)
(* Sessions and messages.                                                  *)
(***************************************************************************)
NoSession == [id |-> 0, title |-> <<>>, messages |-> <<>>,
              createdAt |-> StoredTime, updatedAt |-> StoredTime,
              modelName |-> Undefined, provider |-> Undefined,
              systemPrompt |-> <<>>]

SessionIds(ss) == { ss[i].id : i \in 1..Len(ss) }
MessageIds(s) == { s.messages[i].id : i \in 1..Len(s.messages) }
AllMessageIds(ss) == UNION { MessageIds(ss[i]) : i \in 1..Len(ss) }

\* Array.prototype.findIndex: the first position holding id, 0 when none does
FindIndex(seq, id) ==
  IF \E i \in 1..Len(seq) : seq[i].id = id
  THEN CHOOSE i \in 1..Len(seq) :
         /\ seq[i].id = id
         /\ \A j \in 1..(i - 1) : seq[j].id # id
  ELSE 0

\* sessions.find(session => session.id === id) || null
FindSession(ss, id) ==
  IF FindIndex(ss, id) = 0 THEN NoSession ELSE ss[FindIndex(ss, id)]

activeSession == FindSession(sessions, activeSessionId)

\* prev.map(session => session.id === id ? f(session) : session)
MapSession(ss, id, f(_)) ==
  [i \in 1..Len(ss) |-> IF ss[i].id = id THEN f(ss[i]) ELSE ss[i]]

\* session.messages.map(msg => msg.id === id ? f(msg) : msg)
MapMessage(msgs, id, f(_)) ==
  [i \in 1..Len(msgs) |-> IF msgs[i].id = id THEN f(msgs[i]) ELSE msgs[i]]

\* lastCall records the handler that made the last step, its arguments and
\* what it returned (0 for null / nothing; deleteSession: id2 is the
\* activeSessionId its closure held); the steps of a request's continuation
\* and the handlers no property singles out record Other
Call(op, id1, id2, text, ret) ==
  [op |-> op, id1 |-> id1, id2 |-> id2, text |-> text, ret |-> ret]
Other == Call("other", 0, 0, <<>>, 0)

\* the fresh session of getDefaultSession / createNewSession / deleteSession
NewSession(id, modelName, provider, systemPrompt) ==
  [id |-> id, title |-> NEW_CHAT, messages |-> <<>>,
   createdAt |-> now, updatedAt |-> now,
   modelName |-> modelName, provider |-> provider,
   systemPrompt |-> systemPrompt]

getDefaultSession(id) ==
  <<NewSession(id, defaultModel, defaultProvider, DEFAULT_SYSTEM_PROMPT)>>

ThrIdle == [pc |-> "idle"]

(***************************************************************************)
(* uuidv4()                                                                *)
(***************************************************************************)
RequestIds(rs) ==
  UNION { {rs[r].sid, rs[r].aiMessageId} : r \in 1..Len(rs) }

UsedIds ==
  SessionIds(sessions) \cup AllMessageIds(sessions) \cup {activeSessionId}
  \cup RequestIds(requests)

FreeIds == (1..MaxId) \ UsedIds

Smallest(S) == CHOOSE x \in S : \A y \in S : x <= y

\* the n-th identifier uuidv4() returns within one handler
RECURSIVE NthOf(_, _)
NthOf(S, n) == IF n = 1 THEN Smallest(S) ELSE NthOf(S \ {Smallest(S)}, n - 1)

uuidv4(n) == NthOf(FreeIds, n)

\* the model has identifiers left for n calls of uuidv4()
CanAllocate(n) == Cardinality(FreeIds) >= n

(***************************************************************************)
(* Init: useChat's first render with an empty localStorage.                *)
(***************************************************************************)
Init ==
  /\ now = StartTime
  /\ sessions = getDefaultSession(1)
  /\ activeSessionId = 1
  /\ isLoading = FALSE
  /\ selectedProvider = defaultProvider
  /\ requests = <<>>
  /\ lastCall = Other
  /\ thr = ThrIdle

(***************************************************************************)
(* createNewSession                                                        *)
(***************************************************************************)
createNewSession ==
  /\ Len(sessions) < MaxSessions
  /\ CanAllocate(1)
  /\ LET newSession ==
           NewSession(uuidv4(1),
             IF activeSession = NoSession THEN defaultModel
                                          ELSE activeSession.modelName,
             IF activeSession = NoSession THEN selectedProvider
                                          ELSE activeSession.provider,
             IF activeSession = NoSession \/ activeSession.systemPrompt = <<>>
               THEN DEFAULT_SYSTEM_PROMPT ELSE activeSession.systemPrompt)
     IN /\ sessions' = Append(sessions, newSession)
        /\ activeSessionId' = newSession.id
        /\ lastCall' = Other
  /\ UNCHANGED <<isLoading, selectedProvider, requests, thr, now>>

(***************************************************************************)
(* branchSession(sessionId, messageId)                                     *)
(***************************************************************************)
\* a slice that takes the cutoff message too
BranchPrefix_Inclusive(msgs, messageIndex) == SubSeq(msgs, 1, messageIndex)

\* sourceSession.messages.slice(0, messageIndex): the messages strictly
\* before the cutoff (messageIndex is 1-based here)
BranchPrefix(msgs, messageIndex) == SubSeq(msgs, 1, messageIndex - 1)

\* .map(msg => ({...msg, id: uuidv4()})): the copies take the identifiers
\* drawn after the new session's own
BranchCopy(msgs) ==
  [i \in 1..Len(msgs) |-> [msgs[i] EXCEPT !.id = uuidv4(i + 1)]]

BranchTitle(title) ==
  BRANCHED_FROM \o SliceTo(title, BranchTitleSlice) \o ELLIPSIS

\* a guard that misses the second return
BranchRejected_SessionOnly(sourceSession, messageIndex) ==
  sourceSession = NoSession

\* if (!sourceSession) return null; ... if (messageIndex < 0) return null
BranchRejected(sourceSession, messageIndex) ==
  sourceSession = NoSession \/ messageIndex = 0

\* a branch that adds the new session and leaves the active one selected
branchSession_KeepsActive(sessionId, messageId) ==
  LET sourceSession == FindSession(sessions, sessionId)
      messageIndex == FindIndex(sourceSession.messages, messageId)
  IN
  /\ ~BranchRejected(sourceSession, messageIndex)
  /\ Len(sessions) < MaxSessions
  /\ CanAllocate(1 + Len(BranchPrefix(sourceSession.messages, messageIndex)))
  /\ sessions' =
       Append(sessions,
              [sourceSession EXCEPT
                 !.id = uuidv4(1),
                 !.title = BranchTitle(sourceSession.title),
                 !.messages = BranchCopy(BranchPrefix(sourceSession.messages,
                                                      messageIndex)),
                 !.createdAt = now, !.updatedAt = now])
  /\ lastCall' = Call("branchSession", sessionId, messageId, <<>>, uuidv4(1))
  /\ UNCHANGED <<activeSessionId, isLoading, selectedProvider, requests,
                 thr, now>>

branchSession(sessionId, messageId) ==
  LET sourceSession == FindSession(sessions, sessionId)
      messageIndex == FindIndex(sourceSession.messages, messageId)
  IN
  IF BranchRejected(sourceSession, messageIndex)
  THEN \* return null
       /\ lastCall' = Call("branchSession", sessionId, messageId, <<>>, 0)
       /\ UNCHANGED <<sessions, activeSessionId, isLoading, selectedProvider,
                      requests, thr, now>>
  ELSE /\ Len(sessions) < MaxSessions
       /\ CanAllocate(1 + Len(BranchPrefix(sourceSession.messages,
                                            messageIndex)))
       /\ LET newSession ==
                [id |-> uuidv4(1),
                 title |-> BranchTitle(sourceSession.title),
                 messages |->
                   BranchCopy(BranchPrefix(sourceSession.messages, messageIndex)),
                 createdAt |-> now, updatedAt |-> now,
                 modelName |-> sourceSession.modelName,
                 provider |-> sourceSession.provider,
                 systemPrompt |-> sourceSession.systemPrompt]
          IN /\ sessions' = Append(sessions, newSession)
             /\ activeSessionId' = newSession.id
             /\ lastCall' = Call("branchSession", sessionId, messageId, <<>>,
                                 newSession.id)
       /\ UNCHANGED <<isLoading, selectedProvider, requests, thr, now>>

(***************************************************************************)
(* deleteSession(sessionId)                                                *)
(***************************************************************************)
\* prev.filter(session => session.id !== sessionId)
RemoveSession(ss, sessionId) ==
  SelectSeq(ss, LAMBDA session : session.id # sessionId)

\* a promotion that takes the last remaining session
PromotedId_Last(updatedSessions) == updatedSessions[Len(updatedSessions)].id

\* the id made active when the active session is deleted and others remain
PromotedId(updatedSessions) == updatedSessions[1].id

deleteSession(sessionId) ==
  LET updatedSessions == RemoveSession(sessions, sessionId) IN
  /\ IF sessionId = activeSessionId
     THEN IF Len(updatedSessions) > 0
          THEN /\ activeSessionId' = PromotedId(updatedSessions)
               /\ sessions' = updatedSessions
          ELSE /\ CanAllocate(1)
               /\ sessions' = <<NewSession(uuidv4(1), defaultModel,
                                           selectedProvider,
                                           DEFAULT_SYSTEM_PROMPT)>>
               /\ activeSessionId' = uuidv4(1)
     ELSE /\ sessions' = updatedSessions
          /\ UNCHANGED activeSessionId
  /\ lastCall' = Call("deleteSession", sessionId, activeSessionId, <<>>, 0)
  /\ UNCHANGED <<isLoading, selectedProvider, requests, thr, now>>

(***************************************************************************)
(* selectSession(sessionId)                                                *)
(***************************************************************************)
selectSession(sessionId) ==
  /\ activeSessionId' = sessionId
  /\ lastCall' = Other
  /\ UNCHANGED <<sessions, isLoading, selectedProvider, requests, thr, now>>

(***************************************************************************)
(* clearChat                                                               *)
(***************************************************************************)
ClearMessages(session) ==
  [session EXCEPT !.messages = <<>>, !.updatedAt = now]

clearChat ==
  /\ sessions' = MapSession(sessions, activeSessionId, ClearMessages)
  /\ lastCall' = Other
  /\ UNCHANGED <<activeSessionId, isLoading, selectedProvider, requests, thr, now>>

(***************************************************************************)
(* changeModel(newModel)                                                   *)
(***************************************************************************)
SetModel(session, newModel, newProvider) ==
  [session EXCEPT !.modelName = newModel, !.provider = newProvider,
                  !.updatedAt = now]

changeModel(newModel) ==
  LET newProvider == getProviderFromModelId(newModel)
      f(session) == SetModel(session, newModel, newProvider)
  IN /\ sessions' = MapSession(sessions, activeSessionId, f)
     /\ selectedProvider' = newProvider
     /\ lastCall' = Other
     /\ UNCHANGED <<activeSessionId, isLoading, requests, thr, now>>

(***************************************************************************)
(* changeProvider(newProvider)                                             *)
(***************************************************************************)
SetProvider(session, newProvider) ==
  [session EXCEPT !.provider = newProvider, !.updatedAt = now]

changeProvider(newProvider) ==
  LET f(session) == SetProvider(session, newProvider)
  IN /\ selectedProvider' = newProvider
     /\ sessions' = MapSession(sessions, activeSessionId, f)
     /\ lastCall' = Other
     /\ UNCHANGED <<activeSessionId, isLoading, requests, thr, now>>

(***************************************************************************)
(* updateSystemPrompt(prompt)                                              *)
(***************************************************************************)
SetSystemPrompt(session, prompt) ==
  [session EXCEPT !.systemPrompt = prompt, !.updatedAt = now]

updateSystemPrompt(prompt) ==
  LET f(session) == SetSystemPrompt(session, prompt)
  IN /\ sessions' = MapSession(sessions, activeSessionId, f)
     /\ lastCall' = Other
     /\ UNCHANGED <<activeSessionId, isLoading, selectedProvider, requests,
                    thr, now>>

(***************************************************************************)
(* Messages.  A field the code leaves out of a message (isLoading,         *)
(* provider and modelName of a user message) is FALSE / Undefined here:    *)
(* the code only tests isLoading for truthiness.                           *)
(***************************************************************************)
UserMessage(id, content) ==
  [id |-> id, content |-> content, role |-> "user", timestamp |-> now,
   isLoading |-> FALSE, provider |-> Undefined, modelName |-> Undefined]

\* the placeholder for the AI response
Placeholder(id, session) ==
  [id |-> id, content |-> <<>>, role |-> "model", timestamp |-> now,
   isLoading |-> TRUE,
   provider |-> session.provider, modelName |-> session.modelName]

\* addMessage's update of the active session
AddMessageTo(session, newMessage) ==
  [session EXCEPT
     !.messages = Append(session.messages, newMessage),
     !.updatedAt = now,
     !.title = IF /\ newMessage.role = "user"
                  /\ session.title = NEW_CHAT
                  /\ Len(session.messages) = 0
               THEN SliceTo(newMessage.content, TitleSlice)
                    \o (IF Len(newMessage.content) > TitleSlice
                        THEN ELLIPSIS ELSE <<>>)
               ELSE session.title]

\* messages: [...session.messages, {id: aiMessageId, content: '', ...}]
AddPlaceholderTo(session, aiMessageId) ==
  [session EXCEPT
     !.messages = Append(session.messages, Placeholder(aiMessageId, session)),
     !.updatedAt = now]

(***************************************************************************)
(* Requests: the part of sendMessage / regenerateFromMessage that runs     *)
(* after `await generateResponse(...)`, with the values its closure        *)
(* captured when the handler was called.                                   *)
(***************************************************************************)
SupportedProviders == {"google", "openai", "deepseek", "xai"}

NewRequest(kind, sid, aiMessageId, session) ==
  [kind |-> kind, sid |-> sid, aiMessageId |-> aiMessageId,
   modelName |-> session.modelName, provider |-> session.provider,
   systemPrompt |-> session.systemPrompt,
   deltas |-> <<>>, fullResponse |-> <<>>,
   status |-> "streaming"]

(***************************************************************************)
(* sendMessage(content) and ChatInput's handleSubmit                       *)
(***************************************************************************)
\* a guard that tests !content
IsBlank_NoTrim(content) == content = <<>>

\* !content.trim()
IsBlank(content) == Trim(content) = <<>>

sendMessage(content) ==
  IF IsBlank(content) \/ activeSession = NoSession
  THEN \* return
       /\ lastCall' = Call("sendMessage", 0, 0, content, 0)
       /\ UNCHANGED <<sessions, activeSessionId, isLoading, selectedProvider,
                      requests, thr, now>>
  ELSE /\ Len(requests) < MaxRequests
       /\ CanAllocate(2)
       /\ Len(activeSession.messages) + 2 <= MaxMsgs
       /\ LET userMessage == UserMessage(uuidv4(1), content)
              aiMessageId == uuidv4(2)
              add(session) == AddMessageTo(session, userMessage)
              open(session) == AddPlaceholderTo(session, aiMessageId)
          IN /\ sessions' = MapSession(MapSession(sessions, activeSessionId, add),
                                       activeSessionId, open)
             /\ isLoading' = TRUE
             /\ requests' = Append(requests,
                   NewRequest("send", activeSessionId, aiMessageId, activeSession))
             /\ lastCall' = Call("sendMessage", 0, 0, content,
                                 Len(requests) + 1)
       /\ UNCHANGED <<activeSessionId, selectedProvider, thr, now>>

\* ChatInput.handleSubmit: the form sends only a non-blank text and only
\* while isLoading is false
handleSubmit(message) ==
  /\ Trim(message) # <<>>
  /\ ~isLoading
  /\ sendMessage(message)

(***************************************************************************)
(* regenerateFromMessage(messageId, newContent)                            *)
(***************************************************************************)
EditContent(msgs, messageIndex, newContent) ==
  [msgs EXCEPT ![messageIndex].content = newContent]

\* a filter that keeps nothing after the edited message
KeptIndexes_UpToEdited(msgs, messageIndex) ==
  { idx \in 1..Len(msgs) : idx <= messageIndex }

\* updatedMessages.filter((msg, idx) =>
\*   idx <= messageIndex || (idx > messageIndex && msg.role === 'user'))
KeptIndexes(msgs, messageIndex) ==
  { idx \in 1..Len(msgs) :
      idx <= messageIndex \/ (idx > messageIndex /\ msgs[idx].role = "user") }

RECURSIVE FilterByIndex(_, _, _)
FilterByIndex(msgs, keep, idx) ==
  IF idx > Len(msgs) THEN <<>>
  ELSE (IF idx \in keep THEN <<msgs[idx]>> ELSE <<>>)
       \o FilterByIndex(msgs, keep, idx + 1)

TruncateAfter(msgs, messageIndex) ==
  FilterByIndex(msgs, KeptIndexes(msgs, messageIndex), 1)

regenerateFromMessage(messageId, newContent) ==
  LET messageIndex == FindIndex(activeSession.messages, messageId) IN
  IF activeSession = NoSession \/ messageIndex = 0
  THEN \* return
       /\ lastCall' = Call("regenerateFromMessage", messageId, 0, newContent, 0)
       /\ UNCHANGED <<sessions, activeSessionId, isLoading, selectedProvider,
                      requests, thr, now>>
  ELSE LET updatedMessages ==
             EditContent(activeSession.messages, messageIndex, newContent)
           currentSession ==
             [activeSession EXCEPT
                !.messages = TruncateAfter(updatedMessages, messageIndex)]
           replace(session) == currentSession
           replaced == MapSession(sessions, activeSessionId, replace)
       IN
       IF updatedMessages[messageIndex].role = "user"
       THEN /\ Len(requests) < MaxRequests
            /\ CanAllocate(1)
            /\ LET aiMessageId == uuidv4(1)
                   open(session) == AddPlaceholderTo(session, aiMessageId)
               IN /\ sessions' = MapSession(replaced, activeSessionId, open)
                  /\ isLoading' = TRUE
                  /\ requests' = Append(requests,
                        NewRequest("regenerate", activeSessionId, aiMessageId,
                                   currentSession))
                  /\ lastCall' = Call("regenerateFromMessage", messageId, 0,
                                      newContent, Len(requests) + 1)
            /\ UNCHANGED <<activeSessionId, selectedProvider, thr, now>>
       ELSE /\ sessions' = replaced
            /\ lastCall' = Call("regenerateFromMessage", messageId, 0,
                                newContent, 0)
            /\ UNCHANGED <<activeSessionId, isLoading, selectedProvider,
                           requests, thr, now>>

(***************************************************************************)
(* The continuation of a request: the onChunk callback, the code after the *)
(* await, the catch block and the finally block.                           *)
(***************************************************************************)
\* an update that appends what it is given to the content
SetContent_Appends(msg, content) ==
  [msg EXCEPT !.content = msg.content \o content]

\* updateMessage: msg.id === messageId ? {...msg, content} : msg
SetContent(msg, content) == [msg EXCEPT !.content = content]

\* the update that removes the loading state
Finalize(msg, session) ==
  [msg EXCEPT !.isLoading = FALSE,
              !.provider = session.provider,
              !.modelName = session.modelName]

\* a catch block that writes the error text and forgets the loading flag
ShowError_KeepsLoading(msg) == [msg EXCEPT !.content = ERROR_TEXT]

\* the update that shows the error
ShowError(msg) == [msg EXCEPT !.content = ERROR_TEXT, !.isLoading = FALSE]

\* the session every update of request r is keyed by: the activeSessionId
\* its handler captured
\* a continuation that looks the session up when it runs
RequestSession_Active(r) == activeSessionId

RequestSession(r) == requests[r].sid

\* a callback that puts the message back when the session no longer has it
onChunk_Upserts(r, chunk) ==
  /\ requests[r].status = "streaming"
  /\ Len(requests[r].deltas) < MaxDeltas
  /\ LET fullResponse == requests[r].fullResponse \o chunk
         set(msg) == SetContent(msg, fullResponse)
         upd(session) ==
           [session EXCEPT
              !.messages =
                IF FindIndex(session.messages, requests[r].aiMessageId) = 0
                THEN Append(session.messages,
                            SetContent(Placeholder(requests[r].aiMessageId,
                                                   session),
                                       fullResponse))
                ELSE MapMessage(session.messages, requests[r].aiMessageId, set),
              !.updatedAt = now]
     IN /\ requests' = [requests EXCEPT
                          ![r].fullResponse = fullResponse,
                          ![r].deltas = Append(requests[r].deltas, chunk)]
        /\ sessions' = MapSession(sessions, RequestSession(r), upd)
        /\ lastCall' = Other
  /\ UNCHANGED <<activeSessionId, isLoading, selectedProvider, thr, now>>

\* (chunk) => { fullResponse += chunk; updateMessage(aiMessageId, fullResponse) }
onChunk(r, chunk) ==
  /\ requests[r].status = "streaming"
  /\ Len(requests[r].deltas) < MaxDeltas
  /\ LET fullResponse == requests[r].fullResponse \o chunk
         set(msg) == SetContent(msg, fullResponse)
         upd(session) ==
           [session EXCEPT
              !.messages = MapMessage(session.messages,
                                      requests[r].aiMessageId, set),
              !.updatedAt = now]
     IN /\ requests' = [requests EXCEPT
                          ![r].fullResponse = fullResponse,
                          ![r].deltas = Append(requests[r].deltas, chunk)]
        /\ sessions' = MapSession(sessions, RequestSession(r), upd)
        /\ lastCall' = Other
  /\ UNCHANGED <<activeSessionId, isLoading, selectedProvider, thr, now>>

\* generateResponse resolved: remove the loading state; finally
streamEnd(r) ==
  /\ requests[r].status = "streaming"
  /\ LET upd(session) ==
           LET fin(msg) == Finalize(msg, session) IN
           [session EXCEPT
              !.messages = MapMessage(session.messages,
                                      requests[r].aiMessageId, fin),
              !.updatedAt = now]
     IN sessions' = MapSession(sessions, RequestSession(r), upd)
  /\ requests' = [requests EXCEPT ![r].status = "finalized"]
  /\ isLoading' = FALSE
  /\ lastCall' = Other
  /\ UNCHANGED <<activeSessionId, selectedProvider, thr, now>>

\* the causes for which generateResponse can reject request r now
FailureCauses(r) ==
  (IF requests[r].deltas = <<>> THEN {"credential", "request"} ELSE {"stream"})
  \cup (IF requests[r].deltas = <<>>
           /\ requests[r].provider \notin SupportedProviders
        THEN {"provider"} ELSE {})

\* a handler without try / catch / finally: the rejection escapes
streamFail_Escapes(r, cause) ==
  /\ requests[r].status = "streaming"
  /\ cause \in FailureCauses(r)
  /\ requests' = [requests EXCEPT ![r].status = "rejected"]
  /\ lastCall' = Other
  /\ UNCHANGED <<sessions, activeSessionId, isLoading, selectedProvider, thr, now>>

\* generateResponse rejected: catch, then finally
streamFail(r, cause) ==
  /\ requests[r].status = "streaming"
  /\ cause \in FailureCauses(r)
  /\ LET upd(session) ==
           [session EXCEPT
              !.messages = MapMessage(session.messages,
                                      requests[r].aiMessageId, ShowError),
              !.updatedAt = now]
     IN sessions' = MapSession(sessions, RequestSession(r), upd)
  /\ requests' = [requests EXCEPT ![r].status = "failed"]
  /\ isLoading' = FALSE
  /\ lastCall' = Other
  /\ UNCHANGED <<activeSessionId, selectedProvider, thr, now>>

(***************************************************************************)
(* The handlers with the arguments their callers pass.                     *)
(***************************************************************************)
CallerSessionIds == SessionIds(sessions) \cup {NoSuchId}
CallerMessageIds == AllMessageIds(sessions) \cup {NoSuchId}
ModelNames == {"gemini-2.0-flash", "gemini-1.5-flash-8b", "grok-2-latest"}

CreateNewSession == createNewSession
BranchSession ==
  \E sessionId \in CallerSessionIds, messageId \in CallerMessageIds :
    branchSession(sessionId, messageId)
DeleteSession == \E sessionId \in CallerSessionIds : deleteSession(sessionId)
SelectSession == \E sessionId \in CallerSessionIds : selectSession(sessionId)
ClearChat == clearChat
ChangeModel == \E newModel \in ModelNames : changeModel(newModel)
PromptTexts == {<<>>, <<" ">>, <<"B", "e">>}
UpdateSystemPrompt == \E prompt \in PromptTexts : updateSystemPrompt(prompt)
ProviderNames == {"google", "openai"}
ChangeProvider ==
  \E newProvider \in ProviderNames : changeProvider(newProvider)
HandleSubmit == \E message \in InputTexts : handleSubmit(message)
\* sendMessage called with a blank text (handleSubmit never passes one)
SendBlank ==
  \E content \in InputTexts : Trim(content) = <<>> /\ sendMessage(content)
RegenerateFromMessage ==
  \E messageId \in CallerMessageIds, newContent \in EditTexts :
    regenerateFromMessage(messageId, newContent)
OnChunk ==
  \E r \in 1..Len(requests) :
    onChunk(r, ProviderDelta(Len(requests[r].deltas) + 1))
StreamEnd == \E r \in 1..Len(requests) : streamEnd(r)
StreamFail ==
  \E r \in 1..Len(requests),
     cause \in {"credential", "provider", "request", "stream"} :
    streamFail(r, cause)

(***************************************************************************)
(* Spec: one conversation.  The user sends, edits, clears and selects      *)
(* while the requests stream, end and fail.                                *)
(***************************************************************************)
Next ==
  \/ HandleSubmit
  \/ SendBlank
  \/ RegenerateFromMessage
  \/ OnChunk
  \/ StreamEnd
  \/ StreamFail
  \/ SelectSession
  \/ ClearChat

Spec == Init /\ [][Next]_vars

(***************************************************************************)
(* SpecSwitch: the user sends and edits and, while the responses stream,   *)
(* end and fail, creates, branches and selects sessions.                   *)
(***************************************************************************)
\* the sessions and the requests of a run of SpecSwitch
MaxSwitchSessions == 2
MaxSwitchRequests == 2

SwitchSubmit == Len(requests) < MaxSwitchRequests /\ HandleSubmit
SwitchRegenerate == Len(requests) < MaxSwitchRequests /\ RegenerateFromMessage
SwitchCreate == Len(sessions) < MaxSwitchSessions /\ CreateNewSession
SwitchBranch == Len(sessions) < MaxSwitchSessions /\ BranchSession

NextSwitch ==
  \/ SwitchSubmit
  \/ SwitchRegenerate
  \/ OnChunk
  \/ StreamEnd
  \/ StreamFail
  \/ SelectSession
  \/ SwitchCreate
  \/ SwitchBranch

SpecSwitch == Init /\ [][NextSwitch]_vars

(***************************************************************************)
(* SpecRemove: the user sends and, while the responses stream, end and     *)
(* fail, edits a message, clears the chat and deletes the session.         *)
(***************************************************************************)
NextRemove ==
  \/ SwitchSubmit
  \/ SwitchRegenerate
  \/ ClearChat
  \/ DeleteSession
  \/ OnChunk
  \/ StreamEnd
  \/ StreamFail

SpecRemove == Init /\ [][NextRemove]_vars

(***************************************************************************)
(* SpecTags: the user changes the model and the provider of the active     *)
(* session while its requests stream and end.                              *)
(***************************************************************************)
NextTags ==
  \/ HandleSubmit
  \/ OnChunk
  \/ StreamEnd
  \/ ChangeModel
  \/ ChangeProvider

SpecTags == Init /\ [][NextTags]_vars

(***************************************************************************)
(* SpecStore: the session collection.  The hook starts from the sessions   *)
(* an earlier run stored (loadSavedSessions, loadSavedActiveSessionId) and *)
(* the user creates, branches, deletes, selects and clears sessions; no    *)
(* request is in flight.                                                   *)
(***************************************************************************)
StoredMessage(id, role, content, modelName) ==
  [id |-> id, content |-> content, role |-> role, timestamp |-> StoredTime,
   isLoading |-> FALSE,
   provider |-> IF role = "user" THEN Undefined
                ELSE getProviderFromModelId(modelName),
   modelName |-> IF role = "user" THEN Undefined ELSE modelName]

StoredSessionA ==
  [id |-> 1, title |-> <<"h", "i">>,
   messages |-> << StoredMessage(2, "user", <<"h", "i">>, "gemini-2.0-flash"),
                   StoredMessage(3, "model", <<"H", "e">>, "gemini-2.0-flash"),
                   StoredMessage(4, "user", <<"a", " ">>, "gemini-2.0-flash"),
                   StoredMessage(5, "model", ERROR_TEXT, "gemini-2.0-flash") >>,
   createdAt |-> StoredTime, updatedAt |-> StoredTime,
   modelName |-> "gemini-2.0-flash", provider |-> "google",
   systemPrompt |-> DEFAULT_SYSTEM_PROMPT]

StoredSessionB ==
  [id |-> 6, title |-> NEW_CHAT,
   messages |-> << StoredMessage(7, "user", <<"a", " ">>, "grok-2-latest"),
                   StoredMessage(8, "model", <<"l", "l", "o">>, "grok-2-latest") >>,
   createdAt |-> StoredTime, updatedAt |-> StoredTime,
   modelName |-> "grok-2-latest", provider |-> "xai",
   systemPrompt |-> <<"B", "e", " ", "t", "e", "r", "s", "e">>]

\* the collections an earlier run of the hook stored
StoredCollections == { <<>>, <<StoredSessionA, StoredSessionB>> }
\* the active session ids localStorage can hold (0: none stored)
StoredActiveIds == {0, 6}

(***************************************************************************)
(* Persistence.  An item of localStorage is null, the empty text, a text   *)
(* JSON.parse rejects, the text of a JSON value that is no array, or the   *)
(* text of an array of records.  In a record a Date is the JSON value      *)
(* Date.prototype.toJSON gives, and a key whose value is undefined is      *)
(* absent: it reads back as undefined.                                     *)
(***************************************************************************)
\* the time value of an Invalid Date, and of new Date(null)
InvalidDate == -1
Epoch == 0

JsonString(ms) == [json |-> "string", ms |-> ms]
JsonNull == [json |-> "null", ms |-> 0]
JsonUndefined == [json |-> "undefined", ms |-> 0]

\* JSON.stringify of a Date: its ISO text, null for an Invalid Date
toJSON(date) == IF date = InvalidDate THEN JsonNull ELSE JsonString(date)

\* new Date(value) of a parsed JSON value
NewDate(value) ==
  CASE value.json = "string" -> value.ms
    [] value.json = "null" -> Epoch
    [] OTHER -> InvalidDate

NoItem == [kind |-> "null", value |-> <<>>]
EmptyItem == [kind |-> "empty", value |-> <<>>]
Unparseable == [kind |-> "unparseable", value |-> <<>>]
JsonObject == [kind |-> "object", value |-> <<>>]
JsonArray(records) == [kind |-> "array", value |-> records]

MessageRecord(msg) == [msg EXCEPT !.timestamp = toJSON(msg.timestamp)]

SessionRecord(session) ==
  [session EXCEPT
     !.createdAt = toJSON(session.createdAt),
     !.updatedAt = toJSON(session.updatedAt),
     !.messages = [i \in 1..Len(session.messages) |->
                     MessageRecord(session.messages[i])]]

serializeSessions(ss) ==
  JsonArray([i \in 1..Len(ss) |-> SessionRecord(ss[i])])

ReviveMessage(msg) == [msg EXCEPT !.timestamp = NewDate(msg.timestamp)]

\* a revival that applies no default to the provider
ReviveSession_KeepsProvider(session) ==
  [session EXCEPT
     !.createdAt = NewDate(session.createdAt),
     !.updatedAt = NewDate(session.updatedAt),
     !.messages = [i \in 1..Len(session.messages) |->
                     ReviveMessage(session.messages[i])]]

ReviveSession(session) ==
  [session EXCEPT
     !.createdAt = NewDate(session.createdAt),
     !.updatedAt = NewDate(session.updatedAt),
     !.messages = [i \in 1..Len(session.messages) |->
                     ReviveMessage(session.messages[i])],
     !.provider = IF session.provider = Undefined THEN "google"
                  ELSE session.provider]

\* JSON.parse throws, or data.map is no function: the catch returns []
deserializeSessions(sessionsData) ==
  IF sessionsData.kind = "array"
  THEN [i \in 1..Len(sessionsData.value) |->
          ReviveSession(sessionsData.value[i])]
  ELSE <<>>

loadSavedSessions(savedSessions) ==
  IF savedSessions.kind \notin {"null", "empty"}
  THEN LET ss == deserializeSessions(savedSessions)
       IN IF Len(ss) > 0 THEN ss ELSE getDefaultSession(1)
  ELSE getDefaultSession(1)

loadSavedActiveSessionId(savedActiveSessionId, ss) ==
  IF savedActiveSessionId # 0 /\ savedActiveSessionId \in SessionIds(ss)
  THEN savedActiveSessionId
  ELSE ss[1].id

InitStore ==
  /\ now = StartTime
  /\ \E stored \in StoredCollections, savedActiveSessionId \in StoredActiveIds :
       /\ sessions = loadSavedSessions(serializeSessions(stored))
       /\ activeSessionId =
            loadSavedActiveSessionId(
              savedActiveSessionId,
              loadSavedSessions(serializeSessions(stored)))
  /\ isLoading = FALSE
  /\ selectedProvider = defaultProvider
  /\ requests = <<>>
  /\ lastCall = Other
  /\ thr = ThrIdle

NextStore ==
  \/ CreateNewSession
  \/ BranchSession
  \/ DeleteSession
  \/ SelectSession
  \/ ClearChat

SpecStore == InitStore /\ [][NextStore]_vars

(***************************************************************************)
(* SpecEdit: time passes while the user edits and clears the stored        *)
(* conversations; the requests the edits start are still pending.          *)
(***************************************************************************)
\* the clock new Date() reads advances
Tick ==
  /\ now < StartTime + MaxTicks
  /\ now' = now + 1
  /\ UNCHANGED <<sessions, activeSessionId, isLoading, selectedProvider,
                 requests, lastCall, thr>>

NextEdit ==
  \/ Tick
  \/ SelectSession
  \/ RegenerateFromMessage
  \/ ClearChat

SpecEdit == InitStore /\ [][NextEdit]_vars

(***************************************************************************)
(* SpecLoad: the hook starts from whatever localStorage holds; the user    *)
(* selects and clears sessions while time passes, and the page is loaded   *)
(* again from what the save effects wrote.  During a run thr holds the two *)
(* items the hook's first render read.                                     *)
(***************************************************************************)
\* a record an older version stored: it has no provider key
LegacyRecord == [SessionRecord(StoredSessionB) EXCEPT !.provider = Undefined]

\* the sessions item localStorage can hold when the hook starts
SavedSessionsItems ==
  { NoItem, EmptyItem, Unparseable, JsonObject, JsonArray(<<>>),
    serializeSessions(<<StoredSessionA, StoredSessionB>>),
    JsonArray(<<LegacyRecord, SessionRecord(StoredSessionA)>>) }
\* the active session item (0: null)
SavedActiveIds == {0, 6, NoSuchId}

Loaded(savedSessions, savedActiveSessionId) ==
  [pc |-> "load", savedSessions |-> savedSessions,
   savedActiveSessionId |-> savedActiveSessionId]

\* the first render: the initializers of useState
InitLoad ==
  /\ now = StartTime
  /\ \E savedSessions \in SavedSessionsItems,
        savedActiveSessionId \in SavedActiveIds :
       /\ thr = Loaded(savedSessions, savedActiveSessionId)
       /\ sessions = loadSavedSessions(savedSessions)
       /\ activeSessionId =
            loadSavedActiveSessionId(savedActiveSessionId,
                                     loadSavedSessions(savedSessions))
  /\ isLoading = FALSE
  /\ selectedProvider = defaultProvider
  /\ requests = <<>>
  /\ lastCall = Call("load", 0, 0, <<>>, 0)

\* the page is loaded again: the save effects have written the sessions and
\* the active session id of the last render, the first render reads them
Reload ==
  LET savedSessions == serializeSessions(sessions)
      savedActiveSessionId == activeSessionId
  IN /\ thr' = Loaded(savedSessions, savedActiveSessionId)
     /\ sessions' = loadSavedSessions(savedSessions)
     /\ activeSessionId' =
          loadSavedActiveSessionId(savedActiveSessionId,
                                   loadSavedSessions(savedSessions))
     /\ isLoading' = FALSE
     /\ requests' = <<>>
     /\ lastCall' = Call("load", 0, 0, <<>>, 0)
     /\ UNCHANGED <<selectedProvider, now>>

NextLoad ==
  \/ Tick
  \/ SelectSession
  \/ ClearChat
  \/ Reload

SpecLoad == InitLoad /\ [][NextLoad]_vars

(***************************************************************************)
(* SpecResume: the user sends, the responses stream, end and fail, and the *)
(* page is loaded again at any moment from what the save effects wrote.    *)
(***************************************************************************)
NextResume ==
  \/ HandleSubmit
  \/ OnChunk
  \/ StreamEnd
  \/ StreamFail
  \/ Reload

SpecResume == Init /\ [][NextResume]_vars

(***************************************************************************)
(* generateResponse and the request each adapter builds.  A turn is a      *)
(* [role, content] pair of the request; during a call thr holds the        *)
(* arguments of generateResponse and the turns the adapter sends.          *)
(***************************************************************************)
\* an absent prompt (undefined)
UndefinedText == <<Undefined>>
\* a text used as a condition: neither undefined nor ''
Truthy(text) == text # UndefinedText /\ text # <<>>

\* the hook's list of models that take no system prompt
nonSupportedModels == {"gemini-1.5-flash-8b"}

supportsSystemPrompt(modelName, provider) ==
  modelName \notin nonSupportedModels

getEffectiveSystemPrompt(modelName, systemPrompt, provider) ==
  IF ~supportsSystemPrompt(modelName, provider)
  THEN UndefinedText
  ELSE systemPrompt

Turn(role, content) == [role |-> role, content |-> content]

\* the Gemini adapter: the prompt becomes a leading user turn
GeminiTurns(messages, systemPrompt) ==
  LET geminiMessages ==
        [i \in 1..Len(messages) |->
           Turn(IF messages[i].role = "user" THEN "user" ELSE "model",
                messages[i].content)]
  IN IF Truthy(systemPrompt)
     THEN <<Turn("user", <<"System: ">> \o systemPrompt)>> \o geminiMessages
     ELSE geminiMessages

\* the text given to chat.sendMessageStream: that of the last history entry
GeminiSent(geminiMessages) ==
  IF Len(geminiMessages) = 0 THEN UndefinedText
  ELSE geminiMessages[Len(geminiMessages)].content

\* modelName.includes('grok') || modelName.includes('xai')
IncludesGrok(modelName) == modelName \in {"grok-2-latest"}

\* firstUserMessage.content = `[System: ${systemPrompt}]\n\nUser: ${content}`
FoldPrompt(turns, systemPrompt) ==
  IF \E i \in 1..Len(turns) : turns[i].role = "user"
  THEN LET first == CHOOSE i \in 1..Len(turns) :
                      /\ turns[i].role = "user"
                      /\ \A j \in 1..(i - 1) : turns[j].role # "user"
       IN [turns EXCEPT ![first].content =
             <<"[System: ">> \o systemPrompt \o <<"]", "User: ">>
               \o turns[first].content]
  ELSE turns

\* the OpenAI-compatible adapter (OpenAI, DeepSeek, xAI)
OpenAITurns(messages, modelName, systemPrompt) ==
  LET openaiMessages ==
        [i \in 1..Len(messages) |->
           Turn(IF messages[i].role = "user" THEN "user" ELSE "assistant",
                messages[i].content)]
  IN IF Truthy(systemPrompt) /\ Trim(systemPrompt) # <<>>
     THEN IF IncludesGrok(modelName)
          THEN FoldPrompt(openaiMessages, systemPrompt)
          ELSE <<Turn("system", systemPrompt)>> \o openaiMessages
     ELSE openaiMessages

\* generateResponse(messages, modelName, provider, systemPrompt, onChunk) up
\* to the adapter's request
AdapterRequest(messages, modelName, provider, systemPrompt) ==
  LET effectiveSystemPrompt ==
        getEffectiveSystemPrompt(modelName, systemPrompt, provider)
  IN [pc |-> "request",
      messages |-> messages,
      modelName |-> modelName, provider |-> provider,
      systemPrompt |-> systemPrompt,
      adapter |-> IF provider = "google" THEN "gemini" ELSE "openai",
      turns |-> IF provider = "google"
                THEN GeminiTurns(messages, effectiveSystemPrompt)
                ELSE OpenAITurns(messages, modelName, effectiveSystemPrompt),
      sent |-> IF provider = "google"
               THEN GeminiSent(GeminiTurns(messages, effectiveSystemPrompt))
               ELSE UndefinedText]

\* the texts of the user message a generation call ends with
RequestTexts == { <<"a", " ">> }

\* a generation call for the active session, as sendMessage makes it: the
\* messages are those of the session followed by the new user message
GenerateResponse ==
  /\ activeSession # NoSession
  /\ activeSession.provider \in SupportedProviders
  /\ CanAllocate(1)
  /\ \E content \in RequestTexts :
       thr' = AdapterRequest(Append(activeSession.messages,
                                    UserMessage(uuidv4(1), content)),
                             activeSession.modelName, activeSession.provider,
                             activeSession.systemPrompt)
  /\ UNCHANGED chatVars

\* SpecRequest: sessions loaded from the store; the user selects a session,
\* changes its model and its system prompt, and generates.
NextRequest ==
  \/ SelectSession
  \/ ChangeModel
  \/ UpdateSystemPrompt
  \/ GenerateResponse

SpecRequest == InitStore /\ [][NextRequest]_vars

(***************************************************************************)
(* generateOpenAIStreamingResponse (services/openaiService.ts): the        *)
(* adapter that throttles the calls of onChunk.  thr holds the locals of   *)
(* one call; thr.input lists the non-empty contents the provider stream    *)
(* has yielded and thr.emitted the texts passed to onChunk, in order.      *)
(***************************************************************************)
DefaultRenderInterval == 5
FrameThreshold == 5
ImmediateThreshold == 15
SPEED_SLOW == 100
SPEED_NORMAL == 50
SPEED_FAST == 15
SPEED_VERY_FAST == 5

\* the renderInterval option: 0 stands for an option that is not given
RenderIntervals == {0, SPEED_VERY_FAST, SPEED_FAST, SPEED_NORMAL, SPEED_SLOW}
\* chunk.choices[0]?.delta?.content || '': a chunk may carry no content
ChunkContents == Deltas \cup {<<>>}
\* the clock advances in steps of TickMs milliseconds
TickMs == 40

\* streamingOptions?.renderInterval || 5
RENDER_INTERVAL(renderInterval) ==
  IF renderInterval = 0 THEN DefaultRenderInterval ELSE renderInterval

useAnimationFrame(t) == RENDER_INTERVAL(t.renderInterval) <= FrameThreshold

Emit(t, text) == [t EXCEPT !.emitted = Append(t.emitted, text)]

\* the call up to `await openai.chat.completions.create(...)`
ThrStart(renderInterval, dateNow) ==
  [pc |-> "create", renderInterval |-> renderInterval,
   frameRegistered |-> RENDER_INTERVAL(renderInterval) <= FrameThreshold,
   pendingChunks |-> <<>>, bufferText |-> <<>>, lastRenderTime |-> dateNow,
   fullResponse |-> <<>>, now |-> dateNow, input |-> <<>>, emitted |-> <<>>]

\* the frame callback: flush the pending chunks, register the next frame
renderPendingChunks(t) ==
  IF Len(t.pendingChunks) > 0
  THEN [Emit(t, Join(t.pendingChunks)) EXCEPT !.pendingChunks = <<>>]
  ELSE t

\* interval based rendering of one content
RenderByInterval(t, content) ==
  LET b == [t EXCEPT !.bufferText = t.bufferText \o content] IN
  IF RENDER_INTERVAL(t.renderInterval) <= ImmediateThreshold
  THEN Emit(b, content)
  ELSE IF b.now - b.lastRenderTime > RENDER_INTERVAL(t.renderInterval)
          /\ b.bufferText # <<>>
       THEN [Emit(b, b.bufferText) EXCEPT !.bufferText = <<>>,
                                          !.lastRenderTime = b.now]
       ELSE b

\* the body of `for await (const chunk of stream)`
ProcessChunk(t, content) ==
  IF content = <<>> THEN t
  ELSE LET f == [t EXCEPT !.fullResponse = t.fullResponse \o content,
                          !.input = Append(t.input, content)]
       IN IF useAnimationFrame(t)
          THEN [f EXCEPT !.pendingChunks = Append(f.pendingChunks, content)]
          ELSE RenderByInterval(f, content)

\* a cleanup that cancels the frame and renders nothing
FinalFrameFlush_CancelOnly(t) ==
  IF useAnimationFrame(t) THEN [t EXCEPT !.frameRegistered = FALSE] ELSE t

\* after the loop: cancel the frame and render the final pending chunks
FinalFrameFlush(t) ==
  IF useAnimationFrame(t)
  THEN LET c == [t EXCEPT !.frameRegistered = FALSE] IN
       IF Len(c.pendingChunks) > 0 THEN Emit(c, Join(c.pendingChunks)) ELSE c
  ELSE t

\* after the loop: send any remaining buffered text
FinalBufferFlush(t) ==
  IF ~useAnimationFrame(t) /\ t.bufferText # <<>>
  THEN Emit(t, t.bufferText)
  ELSE t

ThrCreated ==
  /\ thr.pc = "create"
  /\ thr' = [thr EXCEPT !.pc = "streaming"]
  /\ UNCHANGED chatVars

\* completions.create rejects: the catch block rethrows
ThrCreateFail ==
  /\ thr.pc = "create"
  /\ thr' = [thr EXCEPT !.pc = "failed"]
  /\ UNCHANGED chatVars

ThrChunk ==
  /\ thr.pc = "streaming"
  /\ Len(thr.input) < MaxDeltas
  /\ \E content \in ChunkContents : thr' = ProcessChunk(thr, content)
  /\ UNCHANGED chatVars

\* the browser runs the registered frame callback
ThrFrame ==
  /\ thr.pc \in {"create", "streaming", "failed"}
  /\ thr.frameRegistered
  /\ thr' = renderPendingChunks(thr)
  /\ UNCHANGED chatVars

\* Date.now() advances
ThrTick ==
  /\ thr.pc \in {"create", "streaming"}
  /\ thr.now < MaxNow * TickMs
  /\ thr' = [thr EXCEPT !.now = thr.now + TickMs]
  /\ UNCHANGED chatVars

\* the stream ends: clean up, flush, return fullResponse
ThrEnd ==
  /\ thr.pc = "streaming"
  /\ thr' = [FinalBufferFlush(FinalFrameFlush(thr)) EXCEPT !.pc = "done"]
  /\ UNCHANGED chatVars

\* the stream throws: the catch block rethrows
ThrFail ==
  /\ thr.pc = "streaming"
  /\ thr' = [thr EXCEPT !.pc = "failed"]
  /\ UNCHANGED chatVars

InitThrottle ==
  /\ now = StartTime
  /\ sessions = getDefaultSession(1)
  /\ activeSessionId = 1
  /\ isLoading = FALSE
  /\ selectedProvider = defaultProvider
  /\ requests = <<>>
  /\ lastCall = Other
  /\ \E renderInterval \in RenderIntervals : thr = ThrStart(renderInterval, 0)

NextThrottle ==
  \/ ThrCreated
  \/ ThrCreateFail
  \/ ThrChunk
  \/ ThrFrame
  \/ ThrTick
  \/ ThrEnd
  \/ ThrFail

SpecThrottle == InitThrottle /\ [][NextThrottle]_vars

(***************************************************************************)
(* The availability probes checkModelAvailability (Gemini) and             *)
(* checkOpenAIModelAvailability (OpenAI-compatible) and the client each    *)
(* one builds.  During a probe thr holds its arguments, the api_keys item  *)
(* of localStorage and the position in the try / catch.                    *)
(***************************************************************************)
KeyProviders == {"google", "openai", "xai", "deepseek"}

\* the api_keys item: null, a text JSON.parse rejects, or an object holding a
\* key for some of the providers
KeyItem(kind, keys) == [kind |-> kind, keys |-> keys]
KeyItems ==
  {KeyItem("null", {}), KeyItem("unparseable", {})}
    \cup {KeyItem("object", keys) : keys \in SUBSET KeyProviders}

\* getStoredApiKey: "throws" when JSON.parse does, else whether a key is there
getStoredApiKey(item, provider) ==
  CASE item.kind = "unparseable" -> "throws"
    [] item.kind = "object" /\ provider \in item.keys -> "key"
    [] OTHER -> "undefined"

\* modelName.startsWith('grok-'), modelName.startsWith('deepseek-')
StartsWithGrok(modelName) == modelName \in {"grok-2-latest"}
StartsWithDeepseek(modelName) == modelName \in {"deepseek-chat"}

\* the provider whose key and endpoint getOpenAIClient takes for a model name
ClientProvider(modelName) ==
  IF StartsWithGrok(modelName) THEN "xai"
  ELSE IF StartsWithDeepseek(modelName) THEN "deepseek"
  ELSE "openai"

\* getOpenAIClient: the client, or "throws" (no stored key)
getOpenAIClient(modelName, item) ==
  IF getStoredApiKey(item, ClientProvider(modelName)) = "key"
  THEN [client |-> "client", endpoint |-> ClientProvider(modelName)]
  ELSE [client |-> "throws", endpoint |-> Undefined]

\* getGeminiClient
getGeminiClient(item) ==
  IF getStoredApiKey(item, "google") = "key"
  THEN [client |-> "client", endpoint |-> "google"]
  ELSE [client |-> "throws", endpoint |-> Undefined]

ProbeNames == {"checkModelAvailability", "checkOpenAIModelAvailability"}
\* the model names a probe is called with: catalog names and others
ProbeModelNames ==
  {"gemini-2.0-flash", "gpt-4o", "grok-2-latest", "deepseek-chat",
   "no-such-model"}

Available == [available |-> TRUE, supportsStreaming |-> TRUE]
NotAvailable == [available |-> FALSE, supportsStreaming |-> FALSE]
NoResult == [available |-> Undefined, supportsStreaming |-> Undefined]

ProbeCall(probe, modelName, item) ==
  [pc |-> "try", probe |-> probe, modelName |-> modelName, item |-> item,
   client |-> [client |-> Undefined, endpoint |-> Undefined],
   requestFailed |-> FALSE, result |-> NoResult]

\* the client the probe builds inside its try block
ProbeClientOf(t) ==
  IF t.probe = "checkModelAvailability"
  THEN getGeminiClient(t.item)
  ELSE getOpenAIClient(t.modelName, t.item)

\* a catch block that lets the error through
CatchProbe_Rethrows(t) == [t EXCEPT !.pc = "rejected"]

\* catch (error): console.error, return the negative answer
CatchProbe(t) == [t EXCEPT !.pc = "returned", !.result = NotAvailable]

\* the probe builds its client
ProbeClient ==
  /\ thr.pc = "try"
  /\ thr' = [thr EXCEPT
               !.client = ProbeClientOf(thr),
               !.pc = IF ProbeClientOf(thr).client = "throws"
                      THEN "catch" ELSE "await"]
  /\ UNCHANGED chatVars

\* the awaited test request resolves
ProbeRequestOk ==
  /\ thr.pc = "await"
  /\ thr' = [thr EXCEPT !.pc = "returned", !.result = Available]
  /\ UNCHANGED chatVars

\* the awaited test request rejects
ProbeRequestFail ==
  /\ thr.pc = "await"
  /\ thr' = [thr EXCEPT !.pc = "catch", !.requestFailed = TRUE]
  /\ UNCHANGED chatVars

ProbeCatch ==
  /\ thr.pc = "catch"
  /\ thr' = CatchProbe(thr)
  /\ UNCHANGED chatVars

InitProbe ==
  /\ now = StartTime
  /\ sessions = getDefaultSession(1)
  /\ activeSessionId = 1
  /\ isLoading = FALSE
  /\ selectedProvider = defaultProvider
  /\ requests = <<>>
  /\ lastCall = Other
  /\ \E probe \in ProbeNames, modelName \in ProbeModelNames, item \in KeyItems :
       thr = ProbeCall(probe, modelName, item)

NextProbe ==
  \/ ProbeClient
  \/ ProbeRequestOk
  \/ ProbeRequestFail
  \/ ProbeCatch

SpecProbe == InitProbe /\ [][NextProbe]_vars

(***************************************************************************)
(* SpecRouting: the user changes the model and the provider of the active  *)
(* one of the stored sessions and creates and branches sessions from it.   *)
(***************************************************************************)
NextRouting ==
  \/ ChangeModel
  \/ ChangeProvider
  \/ CreateNewSession
  \/ BranchSession

SpecRouting == InitStore /\ [][NextRouting]_vars

(***************************************************************************)
(* SpecCatalog: the user changes the model of a stored session to a name   *)
(* of the catalog or to another name, changes its provider, and the        *)
(* adapter generateResponse selects builds its client.                     *)
(***************************************************************************)
CatalogIds == {ALL_MODELS[i].id : i \in 1..Len(ALL_MODELS)}

\* the names changeModel is called with: catalog names and another
AnyModelNames == ModelNames \cup {"no-such-model"}
ChangeModelAny == \E newModel \in AnyModelNames : changeModel(newModel)

\* the api_keys item during a generation: every key stored, or none
ClientKeyItems == {KeyItem("object", KeyProviders), KeyItem("null", {})}

\* the client of the adapter generateResponse selects by the provider
ClientRequest(modelName, provider, item) ==
  [pc |-> "client", modelName |-> modelName, provider |-> provider,
   item |-> item,
   client |-> IF provider = "google" THEN getGeminiClient(item)
              ELSE getOpenAIClient(modelName, item)]

SelectClient ==
  /\ activeSession # NoSession
  /\ activeSession.provider \in SupportedProviders
  /\ \E item \in ClientKeyItems :
       thr' = ClientRequest(activeSession.modelName, activeSession.provider,
                            item)
  /\ UNCHANGED chatVars

NextCatalog ==
  \/ SelectSession
  \/ ChangeModelAny
  \/ ChangeProvider
  \/ SelectClient

SpecCatalog == InitStore /\ [][NextCatalog]_vars


(***************************************************************************)
(* The legacy AIProvider context (oldint/oldintfrontend/ChatContext.js)    *)
(* and the event stream of the /chat route.  thr holds the messages state  *)
(* of the context, the arguments and locals of one sendMessage call and    *)
(* the contents of the events the call has consumed.                       *)
(***************************************************************************)
MaxEvents == 3

\* the message lists the context holds when sendMessage is called
LegacyHistories ==
  { <<>>, <<Turn("user", <<"h", "i">>), Turn("assistant", <<"H", "e">>)>> }

LegacyIdle(messages) ==
  [pc |-> "idle", messages |-> messages, before |-> messages,
   content |-> <<>>, assistantContent |-> <<>>, events |-> <<>>,
   isLoading |-> FALSE, error |-> FALSE]

\* setMessages(prev => [...prev.slice(0, -1), newMessage, {...assistantMessage}])
ReplaceLast(prev, newMessage, assistantMessage) ==
  SubSeq(prev, 1, Len(prev) - 1) \o <<newMessage, assistantMessage>>

\* sendMessage up to the fetch
LegacySend ==
  /\ thr.pc = "idle"
  /\ \E content \in RequestTexts \cup EditTexts :
       thr' = [thr EXCEPT
                 !.pc = "fetch", !.content = content, !.isLoading = TRUE,
                 !.error = FALSE,
                 !.messages = Append(thr.messages, Turn("user", content))]
  /\ UNCHANGED chatVars

\* the response is ok: the reader is taken
LegacyFetchOk ==
  /\ thr.pc = "fetch"
  /\ thr' = [thr EXCEPT !.pc = "reading"]
  /\ UNCHANGED chatVars

\* fetch rejects or the response is not ok: catch, finally
LegacyFetchFail ==
  /\ thr.pc = "fetch"
  /\ thr' = [thr EXCEPT !.pc = "failed", !.error = TRUE, !.isLoading = FALSE]
  /\ UNCHANGED chatVars

\* the route writes one content event and the loop consumes it
LegacyEvent ==
  /\ thr.pc = "reading"
  /\ Len(thr.events) < MaxEvents
  /\ \E content \in Deltas :
       LET assistantContent == thr.assistantContent \o content
       IN thr' = [thr EXCEPT
                    !.assistantContent = assistantContent,
                    !.events = Append(thr.events, content),
                    !.messages =
                      ReplaceLast(thr.messages, Turn("user", thr.content),
                                  Turn("assistant", assistantContent))]
  /\ UNCHANGED chatVars

\* the route writes the done event and ends the response: break, finally
LegacyEnd ==
  /\ thr.pc = "reading"
  /\ thr' = [thr EXCEPT !.pc = "done", !.isLoading = FALSE]
  /\ UNCHANGED chatVars

InitLegacy ==
  /\ now = StartTime
  /\ sessions = getDefaultSession(1)
  /\ activeSessionId = 1
  /\ isLoading = FALSE
  /\ selectedProvider = defaultProvider
  /\ requests = <<>>
  /\ lastCall = Other
  /\ \E messages \in LegacyHistories : thr = LegacyIdle(messages)

NextLegacy ==
  \/ LegacySend
  \/ LegacyFetchOk
  \/ LegacyFetchFail
  \/ LegacyEvent
  \/ LegacyEnd

SpecLegacy == InitLegacy /\ [][NextLegacy]_vars

(***************************************************************************)
(* Properties                                                              *)
(***************************************************************************)

\* C1: on a normally ending stream the concatenation of all texts passed to
\* onChunk equals the concatenation of the deltas in arrival order, for every
\* render interval (frame-synchronized, immediate, time-batched).
C1_EmittedEqualsDeltas ==
  thr.pc = "done" => Join(thr.emitted) = Join(thr.input)

\* the messages of a session that are loading placeholders
LoadingPlaceholders(session) ==
  { i \in 1..Len(session.messages) : session.messages[i].isLoading }

\* C2: in every reachable state no session holds two placeholder assistant
\* messages with isLoading = true.
C2_OneLoadingPlaceholder ==
  \A i \in 1..Len(sessions) :
    Cardinality(LoadingPlaceholders(sessions[i])) <= 1

\* the placeholder request r opened, as it is now in r's session (empty when
\* the session or the message is gone)
PlaceholderOf(r) ==
  LET session == FindSession(sessions, requests[r].sid)
  IN { session.messages[i] : i \in
         { j \in 1..Len(session.messages) :
             session.messages[j].id = requests[r].aiMessageId } }

\* C3: once a generation request has failed, in sendMessage or in
\* regenerateFromMessage, before or after the first delta, the placeholder it
\* opened has isLoading = false if it still exists in its session.
C3_FailedPlaceholderNotLoading ==
  \A r \in 1..Len(requests) :
    requests[r].status = "failed" =>
      \A msg \in PlaceholderOf(r) : ~msg.isLoading

\* a failed sendMessage request (no delta) and a failed regenerateFromMessage
\* request (mid-stream) whose placeholders are both still in the session
C3_Witness ==
  \E r, q \in 1..Len(requests) :
    /\ requests[r].kind = "send" /\ requests[r].status = "failed"
    /\ requests[r].deltas = <<>>
    /\ requests[q].kind = "regenerate" /\ requests[q].status = "failed"
    /\ requests[q].deltas # <<>>
    /\ PlaceholderOf(r) # {} /\ PlaceholderOf(q) # {}

\* the placeholder of request r in the state after the step
PlaceholderOfNext(r) ==
  LET session == FindSession(sessions', requests'[r].sid)
  IN { session.messages[i] : i \in
         { j \in 1..Len(session.messages) :
             session.messages[j].id = requests'[r].aiMessageId } }

\* C4: when the stream delivers deltas d1..dn and then fails, the placeholder
\* ends with content d1..dn concatenated followed by the error-fallback
\* text, and isLoading = false.
C4_PartialContentPreserved ==
  [][ \A r \in 1..Len(requests) :
        (/\ requests[r].status = "streaming"
         /\ Len(requests') = Len(requests)
         /\ requests'[r].status = "failed")
        => \A msg \in PlaceholderOfNext(r) :
             /\ msg.content = Join(requests[r].deltas) \o ERROR_TEXT
             /\ ~msg.isLoading ]_vars

\* C5: after any sequence of createNewSession, branchSession, deleteSession,
\* selectSession and clearChat calls the session collection is non-empty and
\* activeSessionId is the id of a session in the collection.
C5_ActiveSessionInCollection ==
  /\ Len(sessions) > 0
  /\ activeSessionId \in SessionIds(sessions)


\* the sessions other than the one with the given id, in their order
Remaining(ss, id) ==
  [ j \in 1..Cardinality({ i \in 1..Len(ss) : ss[i].id # id }) |->
      ss[CHOOSE i \in 1..Len(ss) :
           /\ ss[i].id # id
           /\ Cardinality({ h \in 1..i : ss[h].id # id }) = j] ]

\* C6: deleteSession on the active session makes the first remaining session
\* active when others remain, and otherwise leaves exactly one fresh default
\* session (title 'New Chat', no messages) that is active; deleteSession on
\* a non-active session leaves activeSessionId unchanged.
C6_DeleteSessionKeepsValidActive ==
  [][ lastCall'.op = "deleteSession" =>
        LET sessionId == lastCall'.id1
            rest == Remaining(sessions, sessionId)
        IN IF sessionId \notin SessionIds(sessions) THEN TRUE
           ELSE IF sessionId # activeSessionId
           THEN activeSessionId' = activeSessionId
           ELSE IF Len(rest) > 0
           THEN /\ sessions' = rest
                /\ activeSessionId' = rest[1].id
           ELSE /\ Len(sessions') = 1
                /\ sessions'[1].title = NEW_CHAT
                /\ sessions'[1].messages = <<>>
                /\ sessions'[1].id \notin SessionIds(sessions)
                /\ activeSessionId' = sessions'[1].id ]_vars

\* the active session of three was deleted and the first of the two
\* remaining ones is active
C6_Witness ==
  /\ lastCall.op = "deleteSession"
  /\ lastCall.id1 = lastCall.id2
  /\ lastCall.id1 # NoSuchId
  /\ lastCall.id1 \notin SessionIds(sessions)
  /\ Len(sessions) = 2
  /\ activeSessionId = sessions[1].id

\* C7: for a session S and a message m of S, branchSession(S.id, m.id)
\* produces a new session whose messages are the messages of S strictly
\* before m, in order, with the same role and content and each with a fresh
\* id that differs from every original id, and whose modelName, provider and
\* systemPrompt equal those of S.
C7_BranchCopiesStrictPrefix ==
  [][ (lastCall'.op = "branchSession" /\ lastCall'.ret # 0) =>
        LET S == FindSession(sessions, lastCall'.id1)
            k == FindIndex(S.messages, lastCall'.id2)
            B == FindSession(sessions', lastCall'.ret)
        IN /\ S # NoSession /\ k > 0
           /\ lastCall'.ret \notin SessionIds(sessions)
           /\ B # NoSession
           /\ Len(B.messages) = k - 1
           /\ \A i \in 1..(k - 1) :
                /\ B.messages[i].role = S.messages[i].role
                /\ B.messages[i].content = S.messages[i].content
                /\ B.messages[i].id \notin AllMessageIds(sessions)
                /\ \A j \in 1..(k - 1) :
                     i # j => B.messages[i].id # B.messages[j].id
           /\ B.modelName = S.modelName
           /\ B.provider = S.provider
           /\ B.systemPrompt = S.systemPrompt ]_vars

\* a branch of a session at one of its messages that copied two or more
\* messages
C7_Witness ==
  /\ lastCall.op = "branchSession"
  /\ lastCall.ret # 0
  /\ LET B == FindSession(sessions, lastCall.ret)
     IN /\ B # NoSession
        /\ Len(B.messages) >= 2
  /\ \E i \in 1..Len(sessions) :
       /\ sessions[i].id = lastCall.id1
       /\ lastCall.id2 \in MessageIds(sessions[i])

\* C8: branchSession with a session id that is not in the collection, or
\* with a message id that is not in the source session, returns null and
\* changes nothing: the sessions, their messages and activeSessionId are
\* unchanged.
C8_BranchUnknownIsNoOp ==
  [][ (/\ lastCall'.op = "branchSession"
       /\ \/ lastCall'.id1 \notin SessionIds(sessions)
          \/ lastCall'.id2 \notin
               MessageIds(FindSession(sessions, lastCall'.id1)))
      => /\ lastCall'.ret = 0
         /\ sessions' = sessions
         /\ activeSessionId' = activeSessionId ]_vars

\* branchSession returned null for an existing session and a message of
\* another session
C8_Witness ==
  /\ lastCall.op = "branchSession"
  /\ lastCall.ret = 0
  /\ lastCall.id1 \in SessionIds(sessions)
  /\ lastCall.id2 \in AllMessageIds(sessions)
  /\ lastCall.id2 \notin MessageIds(FindSession(sessions, lastCall.id1))

\* C9: sendMessage with an empty or whitespace-only text is a no-op: no
\* message is appended, no placeholder is created, no request is issued, and
\* sessions, activeSessionId and isLoading are unchanged.
C9_BlankSendIsNoOp ==
  [][ (/\ lastCall'.op = "sendMessage"
       /\ \A i \in 1..Len(lastCall'.text) : IsWhitespace(lastCall'.text[i]))
      => /\ lastCall'.ret = 0
         /\ sessions' = sessions
         /\ activeSessionId' = activeSessionId
         /\ isLoading' = isLoading
         /\ requests' = requests ]_vars

\* a whitespace-only text was sent while a session with messages is active
\* and a request is streaming
C9_Witness ==
  /\ lastCall.op = "sendMessage"
  /\ lastCall.text = <<" ">>
  /\ activeSession # NoSession
  /\ activeSession.messages # <<>>
  /\ \E r \in 1..Len(requests) : requests[r].status = "streaming"

\* C10: for a user message at index k of the active session,
\* regenerateFromMessage(id, newContent) leaves the message list equal to the
\* messages up to k with message k's content replaced, then the user-role
\* messages that came after k in their order, then one new empty loading
\* placeholder, and issues exactly one generation call; when the edited
\* message is not user-role, no placeholder is added and no call is issued.
C10_RegenerateTruncates ==
  [][ (/\ lastCall'.op = "regenerateFromMessage"
       /\ activeSession # NoSession
       /\ lastCall'.id1 \in MessageIds(activeSession))
      => LET msgs == activeSession.messages
             k == FindIndex(msgs, lastCall'.id1)
             upTo == [ i \in 1..k |->
                         IF i = k
                         THEN [msgs[i] EXCEPT !.content = lastCall'.text]
                         ELSE msgs[i] ]
             later == SelectSeq(SubSeq(msgs, k + 1, Len(msgs)),
                                LAMBDA msg : msg.role = "user")
             after == FindSession(sessions', activeSessionId).messages
             n == Len(after)
         IN IF msgs[k].role = "user"
            THEN /\ n = k + Len(later) + 1
                 /\ SubSeq(after, 1, n - 1) = upTo \o later
                 /\ after[n].role = "model"
                 /\ after[n].content = <<>>
                 /\ after[n].isLoading
                 /\ after[n].id \notin AllMessageIds(sessions)
                 /\ Len(requests') = Len(requests) + 1
                 /\ SubSeq(requests', 1, Len(requests)) = requests
                 /\ requests'[Len(requests')].aiMessageId = after[n].id
            ELSE /\ after = upTo \o later
                 /\ requests' = requests ]_vars

\* the first user message of a session (user, assistant, user, assistant)
\* was edited: the second user message is kept and a placeholder follows
C10_Witness ==
  /\ lastCall.op = "regenerateFromMessage"
  /\ lastCall.ret # 0
  /\ activeSession # NoSession
  /\ Len(activeSession.messages) = 3
  /\ activeSession.messages[1].id = lastCall.id1
  /\ activeSession.messages[1].content = lastCall.text
  /\ activeSession.messages[2].role = "user"
  /\ activeSession.messages[3].isLoading


\* p is a prefix of s
IsPrefix(p, s) == Len(p) <= Len(s) /\ SubSeq(s, 1, Len(p)) = p

C12_FinalTagsNameRequest ==
  [][ \A r \in 1..Len(requests) :
        (/\ requests[r].status = "streaming"
         /\ Len(requests') = Len(requests)
         /\ requests'[r].status = "finalized")
        => \A msg \in PlaceholderOfNext(r) :
             /\ ~msg.isLoading
             /\ msg.content = Join(requests[r].deltas)
             /\ msg.provider = requests[r].provider
             /\ msg.modelName = requests[r].modelName ]_vars


\* C13: sendMessage and regenerateFromMessage never let a failure escape:
\* whenever a request stops streaming, its handler's promise has resolved
\* (finalized, or failed and caught; never rejected) and the global
\* isLoading flag is false afterwards.
C13_FailureNeverEscapes ==
  [][ \A r \in 1..Len(requests) :
        (/\ requests[r].status = "streaming"
         /\ Len(requests') = Len(requests)
         /\ requests'[r].status # "streaming")
        => /\ requests'[r].status \in {"finalized", "failed"}
           /\ isLoading' = FALSE ]_vars

\* a request failed before its first delta, another failed mid-stream, and
\* a third is still streaming while isLoading is false
C13_Witness ==
  /\ ~isLoading
  /\ \E r, q, p \in 1..Len(requests) :
       /\ requests[r].status = "failed" /\ requests[r].deltas = <<>>
       /\ requests[q].status = "failed" /\ requests[q].deltas # <<>>
       /\ requests[p].status = "streaming"


\* C18: when the provider stream yields deltas d1..dn and then errors, the
\* texts passed to onChunk before the adapter's promise rejects concatenate
\* to exactly d1..dn, including deltas still held in the throttling buffer.
C18_DeliveredBeforeRejection ==
  [][ (thr.pc = "streaming" /\ thr'.pc = "failed")
      => Join(thr'.emitted) = Join(thr'.input) ]_vars

\* C19: once the stream has failed (also before any delta) or the call has
\* returned, no animation-frame callback stays registered, so nothing is
\* scheduled and onChunk is not called any more.
C19_NoFrameAfterReturn ==
  thr.pc \in {"done", "failed"} => ~thr.frameRegistered

\* C20: in frame-synchronized delivery every step (a frame callback, the
\* final flush) calls onChunk at most once, every delta is either emitted or
\* pending, in order and once, and on normal stream end every delta has been
\* emitted.
C20_FrameDeliversOnce ==
  [][ (thr.pc \in {"create", "streaming"} /\ useAnimationFrame(thr))
      => /\ Len(thr'.emitted) <= Len(thr.emitted) + 1
         /\ SubSeq(thr'.emitted, 1, Len(thr.emitted)) = thr.emitted
         /\ thr'.pc \in {"create", "streaming"}
              => Join(thr'.emitted) \o Join(thr'.pendingChunks)
                   = Join(thr'.input)
         /\ thr'.pc = "done" => Join(thr'.emitted) = Join(thr'.input) ]_vars

\* a frame-synchronized call returned after two deltas, the first flushed by
\* a frame callback and the second by the final flush or a later frame
C20_Witness ==
  /\ thr.pc = "done"
  /\ useAnimationFrame(thr)
  /\ Len(thr.input) = 2
  /\ thr.emitted = thr.input


\* p occurs in s as a contiguous part
Contains(p, s) ==
  \E i \in 0..(Len(s) - Len(p)) : SubSeq(s, i + 1, i + Len(p)) = p

\* the models that cannot carry a system-role message: the Gemini models
\* (the adapter has no system role), those the hook lists as taking no
\* system prompt, and the Grok models
CannotCarrySystemRole(modelName, provider) ==
  \/ provider = "google"
  \/ modelName \in nonSupportedModels
  \/ IncludesGrok(modelName)

\* C17: for a model that cannot carry a system-role message, a non-blank
\* system prompt is folded into a user-role turn of the request and no
\* system-role turn is sent; the prompt is not omitted from the request.
C17_PromptFoldedIntoUserTurn ==
  (/\ thr.pc = "request"
   /\ CannotCarrySystemRole(thr.modelName, thr.provider)
   /\ Trim(thr.systemPrompt) # <<>>)
  => /\ \A i \in 1..Len(thr.turns) : thr.turns[i].role # "system"
     /\ \E i \in 1..Len(thr.turns) :
          /\ thr.turns[i].role = "user"
          /\ Contains(thr.systemPrompt, thr.turns[i].content)

\* what C14 calls a change of a session: its messages, title, model, provider
\* or system prompt differ
SessionChanged(before, after) ==
  \/ before.messages # after.messages
  \/ before.title # after.title
  \/ before.modelName # after.modelName
  \/ before.provider # after.provider
  \/ before.systemPrompt # after.systemPrompt

\* C14: every operation that changes a session's messages, title, model,
\* provider or system prompt sets that session's updatedAt to the time of the
\* operation; this includes the edit-and-truncate step of
\* regenerateFromMessage, also when the edited message is not a user message.
C14_MutationSetsUpdatedAt ==
  [][ \A id \in SessionIds(sessions) \cap SessionIds(sessions') :
        SessionChanged(FindSession(sessions, id), FindSession(sessions', id))
          => FindSession(sessions', id).updatedAt = now ]_vars
\* C15: persisting the session collection and the active session id and then
\* loading them reproduces the same sessions in the same order, with equal
\* ids, titles, messages, model, provider, system prompt and timestamps, and
\* the same active session id.
C15_RoundTripReproduces ==
  [][ lastCall'.op = "load"
        => /\ sessions' = sessions
           /\ activeSessionId' = activeSessionId ]_vars
\* the session getDefaultSession builds, whatever its id and its time
IsDefaultSession(session) ==
  /\ session.title = NEW_CHAT
  /\ session.messages = <<>>
  /\ session.modelName = defaultModel
  /\ session.provider = defaultProvider
  /\ session.systemPrompt = DEFAULT_SYSTEM_PROMPT

\* the message is what the stored record says
MessageLoadedFrom(msg, record) ==
  /\ [msg EXCEPT !.timestamp = 0] = [record EXCEPT !.timestamp = 0]
  /\ record.timestamp.json = "string" => msg.timestamp = record.timestamp.ms

\* the session is what the stored record says, with provider 'google' when
\* the record has none
SessionLoadedFrom(session, record) ==
  /\ session.id = record.id
  /\ session.title = record.title
  /\ session.modelName = record.modelName
  /\ session.systemPrompt = record.systemPrompt
  /\ session.provider =
       IF record.provider = Undefined THEN "google" ELSE record.provider
  /\ record.createdAt.json = "string" => session.createdAt = record.createdAt.ms
  /\ record.updatedAt.json = "string" => session.updatedAt = record.updatedAt.ms
  /\ Len(session.messages) = Len(record.messages)
  /\ \A i \in 1..Len(session.messages) :
       MessageLoadedFrom(session.messages[i], record.messages[i])

\* C16: loading never fails and always yields a non-empty collection with an
\* active id that is a member of it: a record without a provider field loads
\* with provider 'google' and its other fields and messages intact; a stored
\* active id that matches no session falls back to the first session; absent,
\* empty or unparseable stored data yields exactly one default session.
C16_LoadingYieldsValidState ==
  lastCall.op = "load" =>
    LET item == thr.savedSessions
        saved == thr.savedActiveSessionId
    IN /\ Len(sessions) >= 1
       /\ activeSessionId \in SessionIds(sessions)
       /\ IF item.kind = "array" /\ Len(item.value) > 0
          THEN /\ Len(sessions) = Len(item.value)
               /\ \A i \in 1..Len(sessions) :
                    SessionLoadedFrom(sessions[i], item.value[i])
          ELSE /\ Len(sessions) = 1
               /\ IsDefaultSession(sessions[1])
       /\ activeSessionId =
            IF saved \in SessionIds(sessions) THEN saved ELSE sessions[1].id

\* a load of a record without provider with a stored active id no session has
C16_Witness ==
  /\ lastCall.op = "load"
  /\ thr.savedSessions.kind = "array"
  /\ \E i \in 1..Len(thr.savedSessions.value) :
       /\ thr.savedSessions.value[i].provider = Undefined
       /\ sessions[i].provider = "google"
  /\ thr.savedActiveSessionId = NoSuchId
  /\ activeSessionId = sessions[1].id
\* the credential the probe of thr needs is not stored
ProbeCredentialAbsent ==
  getStoredApiKey(thr.item,
                  IF thr.probe = "checkModelAvailability" THEN "google"
                  ELSE ClientProvider(thr.modelName)) # "key"

\* C21: the availability probes never throw: for every model name and every
\* credential state, including a missing API key, they resolve, returning
\* {available: false, supportsStreaming: false} whenever the credential is
\* absent or the probe request fails.
C21_ProbesNeverThrow ==
  /\ thr.pc # "rejected"
  /\ thr.pc = "returned"
       => /\ thr.result \in {Available, NotAvailable}
          /\ (ProbeCredentialAbsent \/ thr.requestFailed)
               => thr.result = NotAvailable

\* a probe has returned although the key its client needs is not stored
C21_Witness ==
  /\ thr.pc = "returned"
  /\ ProbeCredentialAbsent
  /\ thr.item.kind = "object"
  /\ thr.result = NotAvailable
\* the step is a delta, the finalization or the error handling of request r
ContinuationOf(r) ==
  /\ Len(requests') = Len(requests)
  /\ requests'[r] # requests[r]

\* C22: the deltas, the finalization and the error handling of a request
\* started in session A modify only A's placeholder message, also when another
\* session is selected, created or branched while the response streams; no
\* message of any other session is changed by that request.
C22_RequestTouchesOnlyItsPlaceholder ==
  [][ \A r \in 1..Len(requests) :
        ContinuationOf(r) =>
          /\ Len(sessions') = Len(sessions)
          /\ \A i \in 1..Len(sessions) :
               /\ sessions'[i].id = sessions[i].id
               /\ sessions[i].id # requests[r].sid
                    => sessions'[i].messages = sessions[i].messages
               /\ Len(sessions'[i].messages) = Len(sessions[i].messages)
               /\ \A j \in 1..Len(sessions[i].messages) :
                    IF sessions[i].id = requests[r].sid
                       /\ sessions[i].messages[j].id = requests[r].aiMessageId
                    THEN Len(requests'[r].deltas) > Len(requests[r].deltas)
                           => sessions'[i].messages[j].content =
                                requests'[r].fullResponse
                    ELSE sessions'[i].messages[j] = sessions[i].messages[j] ]_vars

\* two requests stream into the placeholders of two different sessions
C22_Witness ==
  \E r1, r2 \in 1..Len(requests) :
    /\ requests[r1].sid # requests[r2].sid
    /\ requests[r1].status = "streaming" /\ requests[r2].status = "streaming"
    /\ requests[r1].deltas # <<>> /\ requests[r2].deltas # <<>>
    /\ PlaceholderOf(r1) # {} /\ PlaceholderOf(r2) # {}
    /\ \A msg \in PlaceholderOf(r1) : msg.content = requests[r1].fullResponse
    /\ \A msg \in PlaceholderOf(r2) : msg.content = requests[r2].fullResponse
\* C23: a successful branch makes the new session the active one, issues no
\* generation request, leaves the isLoading flag unchanged, and leaves the
\* source session (its messages, title, model, provider, system prompt) and
\* every other existing session unchanged.
C23_BranchIsStructuralCopy ==
  [][ (lastCall'.op = "branchSession" /\ lastCall'.ret # 0) =>
        /\ activeSessionId' = lastCall'.ret
        /\ lastCall'.ret \notin SessionIds(sessions)
        /\ requests' = requests
        /\ isLoading' = isLoading
        /\ Len(sessions') = Len(sessions) + 1
        /\ sessions'[Len(sessions')].id = lastCall'.ret
        /\ \A i \in 1..Len(sessions) : sessions'[i] = sessions[i] ]_vars

\* a branch was taken while a response was streaming into the source session
C23_Witness ==
  /\ lastCall.op = "branchSession"
  /\ lastCall.ret # 0
  /\ activeSessionId = lastCall.ret
  /\ isLoading
  /\ \E r \in 1..Len(requests) :
       /\ requests[r].status = "streaming"
       /\ requests[r].sid = lastCall.id1
\* C24: a model name that the catalog or the adapter does not recognize is
\* surfaced to the caller as a configuration error; no provider, endpoint or
\* model is substituted for it silently, neither when changeModel resolves the
\* provider of the model nor when the adapter selects its client.
C24_UnrecognizedModelIsError ==
  /\ \A i \in 1..Len(sessions) :
       sessions[i].modelName \notin CatalogIds
         => sessions[i].provider \notin KeyProviders
  /\ (thr.pc = "client" /\ thr.modelName \notin CatalogIds)
       => thr.client.client = "throws"
\* C25: in every reachable state, under any interleaving of sendMessage,
\* regenerateFromMessage and stream completions or failures, the global
\* isLoading flag is false only if no message in any session has
\* isLoading=true; the flag does not drop to false while another request is
\* still streaming.
C25_FlagCoversLoadingMessages ==
  ~isLoading =>
    /\ \A i \in 1..Len(sessions) :
         \A j \in 1..Len(sessions[i].messages) :
           ~sessions[i].messages[j].isLoading
    /\ \A r \in 1..Len(requests) : requests[r].status # "streaming"
\* C26: in every reachable state, including the state obtained by reloading
\* the persisted collection while a response was streaming, each message with
\* isLoading=true belongs to a request that is still in flight and will clear
\* the flag; loading from storage never yields a message flagged isLoading
\* with no request behind it.
C26_LoadingMessageHasRequest ==
  \A i \in 1..Len(sessions) :
    \A j \in 1..Len(sessions[i].messages) :
      sessions[i].messages[j].isLoading
        => \E r \in 1..Len(requests) :
             /\ requests[r].status = "streaming"
             /\ requests[r].sid = sessions[i].id
             /\ requests[r].aiMessageId = sessions[i].messages[j].id
\* the texts the Gemini adapter hands the provider for the messages of the
\* request: the chat history without the turn of the system prompt, then the
\* text sent
GeminiHanded(t) ==
  LET lead == IF Truthy(getEffectiveSystemPrompt(t.modelName, t.systemPrompt,
                                                 t.provider))
              THEN 1 ELSE 0
  IN [i \in 1..(Len(t.turns) - lead) |-> t.turns[i + lead].content]
       \o <<t.sent>>

\* C27: the Gemini adapter hands the provider each message of the request
\* history exactly once and in order: the last user message is either part of
\* the chat history or the text sent with sendMessageStream, never both, and
\* the text sent is the last history message itself.
C27_GeminiHandsEachMessageOnce ==
  (thr.pc = "request" /\ thr.adapter = "gemini") =>
    /\ GeminiHanded(thr) = [i \in 1..Len(thr.messages) |-> thr.messages[i].content]
    /\ thr.sent = thr.messages[Len(thr.messages)].content
\* C28: for every session in every reachable state, after any sequence of
\* changeModel, changeProvider, createNewSession and branchSession, the
\* session's provider is the provider that the model catalog assigns to the
\* session's modelName, so a request is never routed to an adapter of a
\* provider that does not serve the session's model.
C28_ProviderMatchesCatalog ==
  \A i \in 1..Len(sessions) :
    sessions[i].provider = getModelDetails(sessions[i].modelName).provider
\* C29: if clearChat, deleteSession or regenerateFromMessage removes a
\* placeholder message while its stream is in flight, the later deltas, the
\* finalization and the error handling of that stream never re-add a message
\* or a session: a cleared session keeps no message from that stream, a
\* deleted session stays absent, and no other message's content is
\* overwritten.
C29_RemovedPlaceholderStaysRemoved ==
  [][ \A r \in 1..Len(requests) :
        (ContinuationOf(r) /\ PlaceholderOf(r) = {}) =>
          /\ Len(sessions') = Len(sessions)
          /\ \A i \in 1..Len(sessions) :
               /\ sessions'[i].id = sessions[i].id
               /\ sessions'[i].messages = sessions[i].messages ]_vars

\* a stream has delivered its deltas and ended after its session was deleted
C29_Witness ==
  \E r \in 1..Len(requests) :
    /\ requests[r].status = "finalized"
    /\ Len(requests[r].deltas) = MaxDeltas
    /\ requests[r].sid \notin SessionIds(sessions)
    /\ \A i \in 1..Len(sessions) :
         requests[r].aiMessageId \notin MessageIds(sessions[i])
\* C30: in the legacy AIProvider context, after sendMessage has consumed a
\* streamed response of any number n >= 1 of content events, the message list
\* equals the list before the call followed by exactly one user message and
\* one assistant message whose content is the concatenation of the n event
\* contents; the user message is not repeated once per event.
C30_LegacyAppendsOneExchange ==
  (thr.pc = "done" /\ Len(thr.events) >= 1) =>
    thr.messages =
      thr.before \o << Turn("user", thr.content),
                       Turn("assistant", Join(thr.events)) >>
====
